---- MODULE Spec2Model ----
(***************************************************************************)
(* spiffe-rotate: the certmanager rotation Manager (pki/certmanager),      *)
(* its Issuer interface, the refresh loop, the hooks and the readers.      *)
(*                                                                         *)
(* The clock, the NotAfter of a bundle and the durations of the Options    *)
(* are read in whole seconds (since the Unix epoch for a time.Time).  What *)
(* the code computes from them is kept to the nanosecond, as int64         *)
(* nanoseconds are in time.Duration: a pair <<s, n>> stands for            *)
(* s * time.Second + n nanoseconds, 0 <= n < 10^9.  Go's integer division  *)
(* and remainder truncate toward zero.                                     *)
(***************************************************************************)
EXTENDS Integers, Sequences, FiniteSets, TLC

\* ------------------------------------------------------------------ bounds
MaxTicks == 1          \* steps the clock takes
MaxIssue == 3          \* Issuer.Issue calls that may return a bundle
MaxCalls == 3          \* Client.Issue calls that may be started

\* -------------------------------------------------------- program constants
DefaultMinRefresh == 30     \* 30 * time.Second, in seconds
DefaultErrorBackoff == 15   \* 15 * time.Second, in seconds
DefaultHookTimeout == 2     \* 2 * time.Second, in seconds

\* The goroutines that call Start().
Starters == {"s1"}

\* Lifetimes (NotAfter - clock at issuance) the Issuer hands out: an already
\* expired leaf, which the floor catches, and the 90 s of the test.
Lifetimes == {-4, 90}

\* Errors an Issuer returns.
IssueErrors == {"ErrIssue"}

\* Options as the caller passes them to NewWithOptions (zero value included).
RawOptions ==
  { [MinRefresh |-> 0,  ErrorBackoff |-> 0, HookTimeout |-> 0, OnRotate |-> FALSE, OnError |-> FALSE],
    [MinRefresh |-> 2,  ErrorBackoff |-> 1, HookTimeout |-> 1, OnRotate |-> TRUE,  OnError |-> TRUE],
    [MinRefresh |-> -1, ErrorBackoff |-> 3, HookTimeout |-> 3, OnRotate |-> TRUE,  OnError |-> FALSE] }

\* ---------------------------------------------------------- Go arithmetic
\* time.Second, in nanoseconds.
Second == 1000000000

\* s seconds and n nanoseconds, carried into 0 <= n < Second.
Nanos(s, n) == <<s + (n \div Second), n % Second>>

\* time.Duration(s) * time.Second.
Seconds(s) == <<s, 0>>

DAdd(a, b) == Nanos(a[1] + b[1], a[2] + b[2])
DSub(a, b) == Nanos(a[1] - b[1], a[2] - b[2])
DNeg(a) == Nanos(-a[1], -a[2])
DLt(a, b) == a[1] < b[1] \/ (a[1] = b[1] /\ a[2] < b[2])
DLe(a, b) == a = b \/ DLt(a, b)

\* a / k for a >= 0 and a small k > 0.
DDivNat(a, k) ==
  Nanos(a[1] \div k,
        (a[1] % k) * (Second \div k) + (((a[1] % k) * (Second % k) + a[2]) \div k))

\* a / k as Go divides an int64: truncated toward zero.
DDiv(a, k) == IF a[1] >= 0 THEN DDivNat(a, k) ELSE DNeg(DDivNat(DNeg(a), k))

\* a % m for a >= 0 and m > 0, by doubling m: a % m is (a % 2m) less m when
\* that is not below m.  The doubled modulus and the remainder by it are
\* bound to their values, so each is evaluated once.
RECURSIVE DRemNat(_, _)
DRemNat(a, m) ==
  IF DLt(a, m) THEN a
  ELSE IF DLt(DSub(a, m), m) THEN DSub(a, m)
  ELSE CHOOSE v \in UNION {{IF DLt(r, m) THEN r ELSE DSub(r, m) : r \in {DRemNat(a, m2)}} :
                            m2 \in {DAdd(m, m)}} : TRUE

\* a % m as Go takes the remainder of an int64: the sign of a.
DRem(a, m) ==
  CHOOSE q \in {IF x[1] >= 0 THEN DRemNat(x, y) ELSE DNeg(DRemNat(DNeg(x), y)) :
                  x \in {a}, y \in {m}} : TRUE

\* The first whole second that is not before the time a.
Ceil(a) == IF a[2] = 0 THEN a[1] ELSE a[1] + 1

\* ------------------------------------------------------------------ data
\* A nil *x509.Certificate, and a nil *url.URL among a leaf's URIs.
NilLeaf ==
  [nil |-> TRUE, CommonName |-> "", SerialNumber |-> 0, DNSNames |-> <<>>, URIs |-> <<>>]

NilURL == "<nil>"

\* A nil *tls.Certificate.
NilCert == [nil |-> TRUE, Leaf |-> NilLeaf, Certificate |-> <<>>]

\* The x509.Certificate with serial number n, as far as bundleInfo reads it.
LeafOf(n, uris) ==
  [nil |-> FALSE, CommonName |-> "svc", SerialNumber |-> n, DNSNames |-> <<"svc.local">>,
   URIs |-> uris]

\* Bundle.Cert of the bundle the Issuer returns from call n: a certificate
\* with its Leaf set, no certificate, one whose Leaf is not set and whose first
\* DER block parses, and one whose first DER block does not parse.
IssuedCert(n) ==
  IF n = 1 THEN [nil |-> FALSE, Leaf |-> LeafOf(n, <<NilURL, "spiffe://a/b">>),
                 Certificate |-> <<[parses |-> TRUE, cert |-> LeafOf(n, <<>>)]>>]
  ELSE IF n = 2 THEN NilCert
  ELSE IF n = 3 THEN [nil |-> FALSE, Leaf |-> NilLeaf,
                      Certificate |-> <<[parses |-> TRUE, cert |-> LeafOf(n, <<>>)]>>]
  ELSE [nil |-> FALSE, Leaf |-> NilLeaf,
        Certificate |-> <<[parses |-> FALSE, cert |-> NilLeaf]>>]

\* The empty atomic.Value / a nil *Bundle.
NoBundle == [id |-> 0, NotAfter |-> 0, Cert |-> NilCert]

\* x509.ParseCertificate on a DER block.
ParseCertificate(der) ==
  IF der.parses THEN [cert |-> der.cert, err |-> "nil"]
                ELSE [cert |-> NilLeaf, err |-> "x509: malformed certificate"]

\* bundleInfo, up to line 317 and lines 324-326: only NotAfter is set.
bundleInfoNotAfter(bundle) ==
  [NotAfter |-> bundle.NotAfter, CommonName |-> "", SerialNumber |-> "",
   DNSNames |-> <<>>, URIs |-> <<>>]

\* bundleInfo, lines 318-323: the leaf it reads.
bundleInfoLeaf(cert) ==
  IF cert.Leaf = NilLeaf /\ Len(cert.Certificate) > 0
       /\ ParseCertificate(cert.Certificate[1]).err = "nil"
    THEN ParseCertificate(cert.Certificate[1]).cert
    ELSE cert.Leaf

\* bundleInfo: the read-only view handed to the rotate hook.
bundleInfo(bundle) ==
  IF bundle.Cert = NilCert THEN bundleInfoNotAfter(bundle)
  ELSE LET leaf == bundleInfoLeaf(bundle.Cert)
       IN IF leaf = NilLeaf THEN bundleInfoNotAfter(bundle)
          ELSE [NotAfter |-> bundle.NotAfter,
                CommonName |-> leaf.CommonName,
                SerialNumber |-> ToString(leaf.SerialNumber),
                DNSNames |-> leaf.DNSNames,
                URIs |-> IF Len(leaf.URIs) > 0
                           THEN SelectSeq(leaf.URIs, LAMBDA u : u # NilURL)
                           ELSE <<>>]

NoInfo ==
  [NotAfter |-> 0, CommonName |-> "", SerialNumber |-> "", DNSNames |-> <<>>, URIs |-> <<>>]

\* NewWithOptions: non-positive durations take the defaults.
NewWithOptions(o) ==
  [o EXCEPT !.MinRefresh   = IF o.MinRefresh <= 0 THEN DefaultMinRefresh ELSE o.MinRefresh,
            !.ErrorBackoff = IF o.ErrorBackoff <= 0 THEN DefaultErrorBackoff ELSE o.ErrorBackoff,
            !.HookTimeout  = IF o.HookTimeout <= 0 THEN DefaultHookTimeout ELSE o.HookTimeout]

\* Manager.Current on the value c of m.curr.
Current(c) ==
  IF c # NoBundle THEN [bundle |-> c, err |-> "nil"]
                  ELSE [bundle |-> NoBundle, err |-> "ErrNotReady"]

\* GetCertificate / GetClientCertificate on the value c of m.curr: the
\* certificate of the current bundle (named by the bundle's id), or the error
\* of Current().
GetCertificate(c) ==
  IF Current(c).err # "nil" THEN [cert |-> 0, err |-> Current(c).err]
                            ELSE [cert |-> Current(c).bundle.id, err |-> "nil"]

GetClientCertificate(c) ==
  IF Current(c).err # "nil" THEN [cert |-> 0, err |-> Current(c).err]
                            ELSE [cert |-> Current(c).bundle.id, err |-> "nil"]

\* Issuer.Issue: call number n made at time t returns an error, or a fresh
\* bundle whose leaf expires some lifetime from t.
IssueResults(n, t) ==
  {[bundle |-> NoBundle, err |-> e] : e \in IssueErrors}
    \cup {[bundle |-> [id |-> n, NotAfter |-> t + l, Cert |-> IssuedCert(n)], err |-> "nil"] :
            l \in Lifetimes}

NoResult == [bundle |-> NoBundle, err |-> "none"]

\* refresh, lines 268-272: the value of m.curr after the Issue result res.
refreshCurrStoreAlways(c, res) == res.bundle

refreshCurrNoStore(c, res) == c

refreshCurr(c, res) == IF res.err # "nil" THEN c ELSE res.bundle

\* refresh, lines 274-276: the next-refresh time for a bundle stored at t.
refreshNextHalf(bundle, t) == DAdd(Seconds(t), DDiv(Seconds(bundle.NotAfter - t), 2))

refreshNext(bundle, t) ==
  DAdd(Seconds(t), DDiv(DAdd(Seconds(bundle.NotAfter - t), Seconds(bundle.NotAfter - t)), 3))

\* Run, lines 236-239: the wait before jitter.
RunFloorNone(next, t, o) == DSub(next, Seconds(t))

RunFloor(next, t, o) ==
  IF DLt(DSub(next, Seconds(t)), Seconds(o.MinRefresh)) THEN Seconds(o.MinRefresh)
  ELSE DSub(next, Seconds(t))

\* Run, lines 240-241: the wait with jitter, the clock reading t; the
\* modulus is wait/10 plus one nanosecond.
RunJitterWait(w, t) ==
  CHOOSE wait \in {DAdd(w, jitter) :
                     jitter \in {DRem(Seconds(t), DAdd(DDiv(w, 10), <<0, 1>>))}} : TRUE

\* Run, lines 227-234: where the loop goes after refresh returned err.
RunAfterRefreshReturnOnError(err) == IF err # "nil" THEN "done" ELSE "rotate"

RunAfterRefresh(err) == IF err # "nil" THEN "onError" ELSE "rotate"

\* Run, lines 229-231 and 243-245: where the loop goes after sleep returned ok.
RunAfterSleep(ok) == IF ok THEN "loop" ELSE "done"

\* Start, lines 213-214: what Start returns when refresh returned err.
StartReturnNil(err) == "nil"

StartReturn(err) == err

\* sleep: the select cases that can proceed at time t for a timer due at
\* deadline and a context whose cancellation state is canc.
sleepReadyTimerOnly(deadline, t, canc) ==
  IF DLe(deadline, Seconds(t)) THEN {"timer"} ELSE {}

sleepReady(deadline, t, canc) ==
  (IF DLe(deadline, Seconds(t)) THEN {"timer"} ELSE {}) \cup (IF canc THEN {"done"} ELSE {})

\* onRotate / onError, lines 283 and 295: the hook goroutines after a dispatch
\* at time t.  Each gets a context of its own, a child of context.Background()
\* with its deadline HookTimeout away; ctxDone says its Done channel is closed.
NewHook(kind, bundle, err, o, t) ==
  [kind |-> kind, bundle |-> bundle.id,
   info |-> IF kind = "rotate" THEN bundleInfo(bundle) ELSE NoInfo,
   err |-> err, deadline |-> t + o.HookTimeout, ctxDone |-> FALSE, state |-> "running"]

\* onRotate / onError, lines 285-288 and 296-299: the hook goroutines the
\* dispatcher waits for before it returns.  The hook is started with a go
\* statement, so there are none.
AwaitedRunning(hs) == {i \in DOMAIN hs : hs[i].state = "running"}

Awaited(hs) == {}

\* The hook goroutines when goroutine i has returned: its deferred cancel()
\* (lines 286 and 297) has closed its context and its arguments are dead.
HookGone(hs, i) ==
  [hs EXCEPT ![i] = [kind |-> @.kind, bundle |-> @.bundle, info |-> NoInfo, err |-> "nil",
                     deadline |-> 0, ctxDone |-> TRUE, state |-> "returned"]]

\* context.WithTimeout, lines 283 and 295: the hook contexts when the clock
\* reads t; the timer of each closes its context at its deadline.
HookTimersNone(hs, t) == hs

HookTimers(hs, t) ==
  [i \in DOMAIN hs |->
     IF hs[i].state = "running" /\ t >= hs[i].deadline
       THEN [hs[i] EXCEPT !.ctxDone = TRUE] ELSE hs[i]]

onRotate(hs, o, bundle, t) ==
  IF ~o.OnRotate \/ bundle = NoBundle THEN hs
  ELSE Append(hs, NewHook("rotate", bundle, "nil", o, t))

onError(hs, o, err, t) ==
  IF ~o.OnError \/ err = "nil" THEN hs
  ELSE Append(hs, NewHook("error", NoBundle, err, o, t))

\* ----------------------------------------------------------------- state
VARIABLES
  opts,      \* m.opts after NewWithOptions
  curr,      \* m.curr
  now,       \* the clock m.opts.Now reads
  canceled,  \* Run's ctx is done
  ticks,     \* steps the clock has taken
  issued,    \* Issuer.Issue calls made so far, counted up to MaxIssue
  runPc,     \* where Run is
  runLoc,    \* Run's locals
  startPc,   \* where each Start call is
  startLoc,  \* each Start call's locals
  hooks,     \* the hook goroutines with their contexts, in dispatch order
  stored,    \* history: the ids of the bundles stored in m.curr, in store order
  crashed,   \* the process died of an unrecovered panic
  cfg,       \* vault.Client configuration: RoleID and SecretID
  Token,     \* vault.Client.Token, the cached token ("" when there is none)
  calls,     \* one Client.Issue call per caller: position and locals
  started,   \* Client.Issue calls started so far
  logins,    \* history: login requests sent so far
  issuer,    \* vault.Issuer configuration
  backend,   \* what Client.Issue returns to Issuer.Issue
  result,    \* what Issuer.Issue returned
  glob,      \* a matchGlob call: its arguments and what it returned
  peer       \* a VerifyPeerCertificate call: the Authorizer, the chains, the verdict

managerVars == <<opts, curr, now, ticks, canceled, issued, runPc, runLoc, startPc, startLoc,
                 hooks, stored, crashed>>

clientVars == <<cfg, Token, calls, started, logins>>

issuerVars == <<issuer, backend, result>>

spiffeVars == <<glob, peer>>

vars == <<managerVars, clientVars, issuerVars, spiffeVars>>

\* The vault client while the Manager is studied with an abstract Issuer.
ClientUnused ==
  /\ cfg = [RoleID |-> "", SecretID |-> ""]
  /\ Token = ""
  /\ calls = <<>>
  /\ started = 0
  /\ logins = 0

\* The nil *certmanager.Bundle.
NilBundle == [Cert |-> "nil", CA |-> {}, NotAfter |-> 0]

IssueFailed(e) == [bundle |-> NilBundle, err |-> e]

\* No call of Issuer.Issue has returned yet.
NotCalled == [bundle |-> NilBundle, err |-> "not called"]

\* The vault Issuer while it is not the subject.
IssuerUnused ==
  /\ issuer = [Client |-> FALSE, RequireCA |-> FALSE, TTL |-> 0]
  /\ backend = [err |-> "nil"]
  /\ result = NotCalled

\* The spiffe package while it is not the subject.
SpiffeUnused ==
  /\ glob = [pattern |-> <<>>, value |-> <<>>, ret |-> "none"]
  /\ peer = [a |-> <<>>, verifiedChains |-> <<>>, ret |-> "none"]

RunLoc0 ==
  [res |-> NoResult, t0 |-> 0, next |-> Seconds(0), now1 |-> 0, w |-> Seconds(0),
   d |-> Seconds(0), deadline |-> Seconds(0), kind |-> "none", lateStart |-> FALSE]

StartLoc0 == [res |-> NoResult, ret |-> "none", calls |-> 0]

Init ==
  /\ opts \in {NewWithOptions(o) : o \in RawOptions}
  /\ curr = NoBundle
  /\ now = 0
  /\ ticks = 0
  /\ canceled = FALSE
  /\ issued = 0
  /\ runPc = "start"
  /\ runLoc = RunLoc0
  /\ startPc = [s \in Starters |-> "idle"]
  /\ startLoc = [s \in Starters |-> StartLoc0]
  /\ hooks = <<>>
  /\ stored = <<>>
  /\ crashed = FALSE
  /\ ClientUnused
  /\ IssuerUnused
  /\ SpiffeUnused

\* Issue may be called: the calls are bounded until ctx is canceled, and Run
\* makes at most two more after that.
CanIssue == issued < MaxIssue \/ canceled

\* What the next Issue call may return, and the count after it.  Past the
\* bound (ctx is canceled by then) the Issuer only fails.
NextIssueResults ==
  IF issued < MaxIssue THEN IssueResults(issued + 1, now)
  ELSE {[bundle |-> NoBundle, err |-> e] : e \in IssueErrors}

IssuedAfter == IF issued < MaxIssue THEN issued + 1 ELSE issued

\* ----------------------------------------------------------- environment
\* The clock advances by a second, or straight to the first whole second at
\* which Run's pending timer is due; the timers of the hook contexts that are
\* due fire.
Tick ==
  /\ ~crashed
  /\ ticks < MaxTicks
  /\ ticks' = ticks + 1
  /\ \E t \in {now + 1} \cup (IF runPc = "sleeping" THEN {Ceil(runLoc.deadline)} ELSE {}) :
       /\ t > now
       /\ now' = t
  /\ hooks' = HookTimers(hooks, now')
  /\ UNCHANGED <<clientVars, issuerVars, spiffeVars>>
  /\ UNCHANGED <<opts, curr, canceled, issued, runPc, runLoc, startPc, startLoc,
                 stored, crashed>>

\* The caller cancels Run's context.
Cancel ==
  /\ ~crashed
  /\ ~canceled
  /\ canceled' = TRUE
  /\ UNCHANGED <<clientVars, issuerVars, spiffeVars>>
  /\ UNCHANGED <<opts, curr, now, ticks, issued, runPc, runLoc, startPc, startLoc,
                 hooks, stored, crashed>>

\* ------------------------------------------------------------------ Start
\* Start, lines 213-214 -> refresh, lines 268-271: the Issue call returns; on
\* an error refresh returns it and Start returns it to the caller.
StartIssue(s) ==
  /\ ~crashed
  /\ startPc[s] = "idle"
  /\ CanIssue
  /\ issued' = IssuedAfter
  /\ \E res \in NextIssueResults :
       /\ curr' = IF res.err # "nil" THEN refreshCurr(curr, res) ELSE curr
       /\ IF res.err # "nil"
            THEN /\ startLoc' = [startLoc EXCEPT ![s] =
                      [StartLoc0 EXCEPT !.ret = StartReturn(res.err), !.calls = 1]]
                 /\ startPc' = [startPc EXCEPT ![s] = "returned"]
            ELSE /\ startLoc' = [startLoc EXCEPT ![s] =
                      [@ EXCEPT !.res = res, !.calls = @ + 1]]
                 /\ startPc' = [startPc EXCEPT ![s] = "refresh"]
  /\ UNCHANGED <<clientVars, issuerVars, spiffeVars>>
  /\ UNCHANGED <<opts, now, ticks, canceled, runPc, runLoc, hooks, stored, crashed>>

\* Start, lines 213-214 -> refresh, lines 272-276: store the bundle, compute
\* the next-refresh time (which Start drops) and return refresh's nil error.
StartRefresh(s) ==
  /\ ~crashed
  /\ startPc[s] = "refresh"
  /\ LET res == startLoc[s].res IN
       /\ curr' = refreshCurr(curr, res)
       /\ stored' = IF curr' = res.bundle THEN Append(stored, res.bundle.id) ELSE stored
       /\ startLoc' = [startLoc EXCEPT ![s] =
            [StartLoc0 EXCEPT !.ret = StartReturn(res.err), !.calls = startLoc[s].calls]]
  /\ startPc' = [startPc EXCEPT ![s] = "returned"]
  /\ UNCHANGED <<clientVars, issuerVars, spiffeVars>>
  /\ UNCHANGED <<opts, now, ticks, canceled, issued, runPc, runLoc, hooks, crashed>>

\* -------------------------------------------------------------------- Run
\* sleep, lines 303-308, on entry at time t with duration d: time.After(d)
\* starts the timer and select polls its cases.  A case that can proceed is
\* taken at once (a random one if both can); otherwise the goroutine blocks.
\* The pcs Run may be at next.
sleepEnter(d, t, canc) ==
  IF sleepReady(DAdd(Seconds(t), d), t, canc) = {} THEN {"sleeping"}
  ELSE {RunAfterSleep(c = "timer") : c \in sleepReady(DAdd(Seconds(t), d), t, canc)}

\* Run, line 219: is there a bundle yet?
RunCheckCurrent ==
  /\ ~crashed
  /\ runPc = "start"
  /\ runPc' = IF Current(curr).err # "nil" THEN "initIssue" ELSE "loop"
  /\ UNCHANGED <<clientVars, issuerVars, spiffeVars>>
  /\ UNCHANGED <<opts, curr, now, ticks, canceled, issued, runLoc, startPc, startLoc,
                 hooks, stored, crashed>>

\* Run, lines 220-222 -> refresh, lines 268-271: the initial Issue call
\* returns; an error goes to the error hook and the loop is entered.
RunInitIssue ==
  /\ ~crashed
  /\ runPc = "initIssue"
  /\ CanIssue
  /\ issued' = IssuedAfter
  /\ \E res \in NextIssueResults :
       IF res.err # "nil"
       THEN /\ curr' = refreshCurr(curr, res)
            /\ hooks' = onError(hooks, opts, res.err, now)
            /\ runLoc' = RunLoc0
            /\ runPc' = "loop"
       ELSE /\ runLoc' = [RunLoc0 EXCEPT !.res = res]
            /\ runPc' = "initRefresh"
            /\ UNCHANGED <<curr, hooks>>
  /\ UNCHANGED <<clientVars, issuerVars, spiffeVars>>
  /\ UNCHANGED <<opts, now, ticks, canceled, startPc, startLoc, stored, crashed>>

\* Run, line 220 -> refresh, lines 272-276: store the initial bundle; the
\* results are dropped and the loop is entered.
RunInitRefresh ==
  /\ ~crashed
  /\ runPc = "initRefresh"
  /\ curr' = refreshCurr(curr, runLoc.res)
  /\ stored' = IF curr' = runLoc.res.bundle THEN Append(stored, runLoc.res.bundle.id) ELSE stored
  /\ runLoc' = RunLoc0
  /\ runPc' = "loop"
  /\ UNCHANGED <<clientVars, issuerVars, spiffeVars>>
  /\ UNCHANGED <<opts, now, ticks, canceled, issued, startPc, startLoc, hooks, crashed>>

\* Run, lines 226-227 -> refresh, lines 268-271: the loop's Issue call returns.
RunIssue ==
  /\ ~crashed
  /\ runPc = "loop"
  /\ CanIssue
  /\ issued' = IssuedAfter
  /\ \E res \in NextIssueResults :
       /\ runLoc' = [RunLoc0 EXCEPT !.res = res]
       /\ curr' = IF res.err # "nil" THEN refreshCurr(curr, res) ELSE curr
       /\ runPc' = IF res.err # "nil" THEN RunAfterRefresh(res.err) ELSE "refresh"
  /\ UNCHANGED <<clientVars, issuerVars, spiffeVars>>
  /\ UNCHANGED <<opts, now, ticks, canceled, startPc, startLoc, hooks,
                 stored, crashed>>

\* Run, lines 226-227 -> refresh, lines 272-276: store the bundle and compute
\* the next-refresh time.
RunRefresh ==
  /\ ~crashed
  /\ runPc = "refresh"
  /\ curr' = refreshCurr(curr, runLoc.res)
  /\ stored' = IF curr' = runLoc.res.bundle THEN Append(stored, runLoc.res.bundle.id) ELSE stored
  /\ runLoc' = [runLoc EXCEPT !.t0 = now, !.next = refreshNext(runLoc.res.bundle, now)]
  /\ runPc' = RunAfterRefresh(runLoc.res.err)
  /\ UNCHANGED <<clientVars, issuerVars, spiffeVars>>
  /\ UNCHANGED <<opts, now, ticks, canceled, issued, startPc, startLoc, hooks, crashed>>

\* Run, line 228: dispatch the error hook.
RunOnError ==
  /\ ~crashed
  /\ runPc = "onError"
  /\ hooks' = onError(hooks, opts, runLoc.res.err, now)
  /\ runPc' = "backoff"
  /\ UNCHANGED <<clientVars, issuerVars, spiffeVars>>
  /\ UNCHANGED <<opts, curr, now, ticks, canceled, issued, runLoc, startPc, startLoc,
                 stored, crashed>>

\* Run, line 229: onError has returned; enter sleep(ErrorBackoff).  Inside
\* sleep only its argument and its timer are live.
RunBackoff ==
  /\ ~crashed
  /\ runPc = "backoff"
  /\ Awaited(hooks) = {}
  /\ runLoc' = [RunLoc0 EXCEPT !.d = Seconds(opts.ErrorBackoff),
                               !.deadline = DAdd(Seconds(now), Seconds(opts.ErrorBackoff)),
                               !.kind = "backoff", !.lateStart = canceled]
  /\ runPc' \in sleepEnter(Seconds(opts.ErrorBackoff), now, canceled)
  /\ UNCHANGED <<clientVars, issuerVars, spiffeVars>>
  /\ UNCHANGED <<opts, curr, now, ticks, canceled, issued, startPc, startLoc,
                 hooks, stored, crashed>>

\* Run, lines 234-239: dispatch the rotate hook; onRotate has returned, and
\* the wait until the next refresh is computed and floored.
RunOnRotate ==
  /\ ~crashed
  /\ runPc = "rotate"
  /\ hooks' = onRotate(hooks, opts, runLoc.res.bundle, now)
  /\ runLoc' = [runLoc EXCEPT !.now1 = now, !.w = RunFloor(runLoc.next, now, opts)]
  /\ runPc' = "jitter"
  /\ UNCHANGED <<clientVars, issuerVars, spiffeVars>>
  /\ UNCHANGED <<opts, curr, now, ticks, canceled, issued, startPc, startLoc,
                 stored, crashed>>

\* Run, lines 240-243: add the jitter and enter sleep(wait).
RunJitter ==
  /\ ~crashed
  /\ runPc = "jitter"
  /\ Awaited(hooks) = {}
  /\ \E wait \in {RunJitterWait(runLoc.w, now)} :
       /\ runLoc' = [RunLoc0 EXCEPT !.w = runLoc.w, !.d = wait,
                                    !.deadline = DAdd(Seconds(now), wait),
                                    !.kind = "refresh", !.lateStart = canceled]
       /\ runPc' \in sleepEnter(wait, now, canceled)
  /\ UNCHANGED <<clientVars, issuerVars, spiffeVars>>
  /\ UNCHANGED <<opts, curr, now, ticks, canceled, issued, startPc, startLoc, hooks, stored, crashed>>

\* sleep, lines 303-308, blocked in select: the timer fires or ctx is done.
\* Back at the top of the loop the locals of the last iteration are dead.
RunWake ==
  /\ ~crashed
  /\ runPc = "sleeping"
  /\ \E c \in sleepReady(runLoc.deadline, now, canceled) : runPc' = RunAfterSleep(c = "timer")
  /\ runLoc' = IF runPc' = "loop" THEN RunLoc0 ELSE runLoc
  /\ UNCHANGED <<clientVars, issuerVars, spiffeVars>>
  /\ UNCHANGED <<opts, curr, now, ticks, canceled, issued, startPc, startLoc,
                 hooks, stored, crashed>>

RunStep ==
  \/ RunCheckCurrent
  \/ RunInitIssue
  \/ RunInitRefresh
  \/ RunIssue
  \/ RunRefresh
  \/ RunOnError
  \/ RunBackoff
  \/ RunOnRotate
  \/ RunJitter
  \/ RunWake

\* ------------------------------------------------------------------ hooks
\* A hook returns; its deferred cancel() runs and the goroutine is gone.
HookReturn(i) ==
  /\ ~crashed
  /\ hooks[i].state = "running"
  /\ hooks' = HookGone(hooks, i)
  /\ UNCHANGED <<clientVars, issuerVars, spiffeVars>>
  /\ UNCHANGED <<opts, curr, now, ticks, canceled, issued, runPc, runLoc, startPc, startLoc,
                 stored, crashed>>

\* A hook panics.  The goroutine of lines 285-288 / 296-299 defers only
\* cancel(): it runs as the panic unwinds and closes the hook's context,
\* nothing recovers, and the unrecovered panic ends the process.
HookPanic(i) ==
  /\ ~crashed
  /\ hooks[i].state = "running"
  /\ hooks' = [hooks EXCEPT ![i].state = "panicked", ![i].ctxDone = TRUE]
  /\ crashed' = TRUE
  /\ UNCHANGED <<clientVars, issuerVars, spiffeVars>>
  /\ UNCHANGED <<opts, curr, now, ticks, canceled, issued, runPc, runLoc, startPc, startLoc,
                 stored>>

\* ------------------------------------------------------------ vault client
\* pki/vault Client: one cached token shared by the concurrent callers of
\* Client.Issue.  A token is "", "bad" (the server rejects it) or "good".
Callers == {"a", "b"}

Tokens == {"bad", "good"}

\* The client as constructed: Token pre-provisioned or not, AppRole
\* credentials configured or not.
Configs == [RoleID : {"", "role"}, SecretID : {"", "secret"}]

Call0 ==
  [pc |-> "idle", second |-> FALSE, sent |-> 0, hdr |-> "", resp |-> "none",
   open |-> 0, err1 |-> "nil", ret |-> "none", cleared |-> FALSE, fresh |-> FALSE,
   relogin |-> "", alone |-> TRUE]

Active(c) == calls[c].pc \notin {"idle", "returned"}

\* isAuthError: the error text holds "permission denied", "http 403" or
\* "http 401"; ErrAuthRequired ("vault auth required") does not.
AuthClassErrors == {"http 401", "http 403", "http 500: permission denied"}

isAuthErrorAny(err) == TRUE
isAuthError(err) == err \in AuthClassErrors

\* What the login endpoint may answer: no response at all, a non-2xx
\* response, a 2xx response with an undecodable body, with an empty
\* client_token, or with a token.
LoginResponses == {"transport", "http 400", "undecodable", "empty"} \cup Tokens

\* What the issuance endpoint may answer to a request carrying token t.
IssueResponses(t) ==
  IF t = "good"
    THEN {"ok", "malformed", "http 500", "transport"}
    ELSE {"http 403", "http 401", "http 500: permission denied", "http 500", "transport"}

IssueAnswers == UNION {IssueResponses(t) : t \in Tokens}

Is2xx(r) == r \in {"ok", "malformed", "undecodable", "empty"} \cup Tokens

\* doJSON: the bodies it leaves open for its caller: the body of a 2xx
\* response is returned open, that of any other response is closed by the
\* deferred Close, and a transport error has no response.
doJSONOpen(r) == IF Is2xx(r) THEN 1 ELSE 0

\* ensureToken's deferred Close runs on every return after the response.
ensureTokenCloses(r) == 1

\* decodeIssue's deferred Close runs on every return.
decodeIssueClosesOkOnly(r) == IF r = "ok" THEN 1 ELSE 0
decodeIssueCloses(r) == 1

Return(c, e) == [calls[c] EXCEPT !.pc = "returned", !.ret = e, !.resp = "none", !.hdr = ""]

\* ensureToken's first check: a token is cached.
holdsTokenNever(t) == FALSE
holdsToken(t) == t # ""

\* Client.Issue is called: the argument checks, then ensureToken.
ClientIssue(c, argsOk) ==
  /\ ~Active(c)
  /\ started < MaxCalls
  /\ started' = started + 1
  /\ LET others == \E d \in Callers \ {c} : Active(d)
         me == [Call0 EXCEPT !.alone = ~others]
     IN calls' = [d \in Callers |->
                    IF d = c
                      THEN IF argsOk THEN [me EXCEPT !.pc = "ensureToken"]
                                     ELSE [me EXCEPT !.pc = "returned", !.ret = "args"]
                      ELSE IF Active(d) /\ argsOk THEN [calls[d] EXCEPT !.alone = FALSE]
                                                  ELSE calls[d]]
  /\ UNCHANGED <<cfg, Token, logins>>
  /\ UNCHANGED <<managerVars, issuerVars, spiffeVars>>

\* ensureToken, its first lines: the cached token is read under the read lock.
EnsureToken(c) ==
  /\ calls[c].pc = "ensureToken"
  /\ calls' = [calls EXCEPT ![c] =
       IF holdsToken(Token) THEN [@ EXCEPT !.pc = "doJSON"]
       ELSE IF cfg.RoleID = "" \/ cfg.SecretID = "" THEN Return(c, "ErrAuthRequired")
       ELSE [@ EXCEPT !.pc = "login"]]
  /\ UNCHANGED <<cfg, Token, started, logins>>
  /\ UNCHANGED <<managerVars, issuerVars, spiffeVars>>

\* ensureToken sends the login request (doJSON without a token); no lock is held.
LoginSend(c) ==
  /\ calls[c].pc = "login"
  /\ calls' = [calls EXCEPT ![c] = [@ EXCEPT !.pc = "loginWait"]]
  /\ logins' = logins + 1
  /\ UNCHANGED <<cfg, Token, started>>
  /\ UNCHANGED <<managerVars, issuerVars, spiffeVars>>

\* The login request ends: doJSON returns the open 2xx response or an error.
LoginRecv(c, r) ==
  /\ calls[c].pc = "loginWait"
  /\ calls' = [calls EXCEPT ![c] =
       IF Is2xx(r) THEN [@ EXCEPT !.pc = "loginDecode", !.resp = r, !.open = @ + doJSONOpen(r)]
                   ELSE Return(c, r)]
  /\ UNCHANGED <<cfg, Token, started, logins>>
  /\ UNCHANGED <<managerVars, issuerVars, spiffeVars>>

\* ensureToken decodes the login response, caches a non-empty token and
\* returns; the deferred Close runs.
LoginDecode(c) ==
  /\ calls[c].pc = "loginDecode"
  /\ LET r == calls[c].resp
         left == calls[c].open - ensureTokenCloses(r)
     IN IF r \in Tokens
          THEN /\ Token' = r
               /\ calls' = [d \in Callers |->
                    IF d = c
                      THEN [calls[c] EXCEPT !.pc = "doJSON", !.resp = "none", !.open = left,
                                            !.fresh = calls[c].cleared,
                                            !.relogin = IF calls[c].cleared THEN r ELSE ""]
                      ELSE [calls[d] EXCEPT !.fresh = calls[d].cleared]]
          ELSE /\ Token' = Token
               /\ calls' = [calls EXCEPT ![c] = [Return(c, r) EXCEPT !.open = left]]
  /\ UNCHANGED <<cfg, started, logins>>
  /\ UNCHANGED <<managerVars, issuerVars, spiffeVars>>

\* doJSON with requireAuth: the cached token is read again and attached, and
\* the issuance request is sent; without a token nothing is sent.
DoJSON(c) ==
  /\ calls[c].pc = "doJSON"
  /\ calls' = [calls EXCEPT ![c] =
       IF Token = "" THEN Return(c, "ErrAuthRequired")
                     ELSE [@ EXCEPT !.pc = "issueWait", !.hdr = Token, !.sent = @ + 1]]
  /\ UNCHANGED <<cfg, Token, started, logins>>
  /\ UNCHANGED <<managerVars, issuerVars, spiffeVars>>

\* The issuance request ends.  After the first request an auth-class error
\* with RoleID and SecretID configured leads to the retry; any other error,
\* and any error of the second request, is returned.
IssueRecv(c, r) ==
  /\ calls[c].pc = "issueWait"
  /\ r \in IssueResponses(calls[c].hdr)
  /\ calls' = [calls EXCEPT ![c] =
       IF Is2xx(r)
         THEN [@ EXCEPT !.pc = "decodeIssue", !.resp = r, !.open = @ + doJSONOpen(r)]
       ELSE IF ~calls[c].second /\ isAuthError(r) /\ cfg.RoleID # "" /\ cfg.SecretID # ""
         THEN [@ EXCEPT !.pc = "setToken", !.hdr = "", !.err1 = r]
       ELSE [Return(c, r) EXCEPT !.err1 = IF calls[c].second THEN @ ELSE r]]
  /\ UNCHANGED <<cfg, Token, started, logins>>
  /\ UNCHANGED <<managerVars, issuerVars, spiffeVars>>

\* decodeIssue: the response is decoded and returned; the deferred Close runs.
DecodeIssue(c) ==
  /\ calls[c].pc = "decodeIssue"
  /\ LET r == calls[c].resp
     IN calls' = [calls EXCEPT ![c] =
          [Return(c, IF r = "ok" THEN "nil" ELSE "decode")
             EXCEPT !.open = calls[c].open - decodeIssueCloses(r)]]
  /\ UNCHANGED <<cfg, Token, started, logins>>
  /\ UNCHANGED <<managerVars, issuerVars, spiffeVars>>

\* The retry: setToken("") clears the cache, then ensureToken runs again.
Retry(c) ==
  /\ calls[c].pc = "setToken"
  /\ Token' = ""
  /\ calls' = [calls EXCEPT ![c] =
       [@ EXCEPT !.pc = "ensureToken", !.second = TRUE, !.cleared = TRUE]]
  /\ UNCHANGED <<cfg, started, logins>>
  /\ UNCHANGED <<managerVars, issuerVars, spiffeVars>>

\* ------------------------------------------------------------ vault issuer
\* pki/vault Issuer.Issue as a function of the Issuer's configuration and of
\* what Client.Issue returned.  A PEM text is the sequence of its blocks:
\* "ca1" and "ca2" are CERTIFICATE blocks that parse, "junk" is a block that
\* yields no certificate; the empty string is the empty sequence.
MaxChain == 2          \* entries of ca_chain

Blocks == {"ca1", "ca2", "junk"}

PEMs == {<<>>, <<"junk">>, <<"ca1">>, <<"ca2">>, <<"ca1", "junk">>, <<"ca1", "ca2">>}

\* The certificate field, a PEM text.  NotAfter is the validity end of the
\* leaf, the first block of type CERTIFICATE; first is the validity end of
\* the certificate in the first block of any type, 0 when that block holds
\* none.  "leaf": the first block is the leaf.  "prefixed": a block of another
\* type that holds no certificate comes before the leaf.  "shadowed": a block
\* of another type that holds a certificate comes before the leaf.
\* "garbage": no certificate at all.
Certificates ==
  {[kind |-> "leaf", NotAfter |-> 30, first |-> 30],
   [kind |-> "leaf", NotAfter |-> 90, first |-> 90],
   [kind |-> "prefixed", NotAfter |-> 90, first |-> 0],
   [kind |-> "shadowed", NotAfter |-> 30, first |-> 90],
   [kind |-> "garbage", NotAfter |-> 0, first |-> 0]}

\* Issuer.TTL as configured, in seconds; 0 is unset.  The TTL goes into the
\* request only: the backend answers as it likes, with a certificate that
\* ends before or after the requested time.
TTLs == {0, 60}

PrivateKeys == {"key", "mismatch"}

Chains == UNION {[1..n -> PEMs] : n \in 0..MaxChain}

ClientResults ==
  {[err |-> "ErrIssue"]} \cup
  [err : {"nil"}, Certificate : Certificates, PrivateKey : PrivateKeys,
   CAChain : Chains, IssuingCA : PEMs]

Issuers == [Client : BOOLEAN, RequireCA : BOOLEAN, TTL : TTLs]

CertsOf(p) == {p[k] : k \in DOMAIN p} \ {"junk"}

\* x509.CertPool.AppendCertsFromPEM: the certificates of the text are added
\* (CertsOf); it reports whether at least one was.
AppendCertsFromPEM(p) == CertsOf(p) # {}

\* tls.X509KeyPair: the blocks of type CERTIFICATE are taken, the others
\* skipped; there must be one and the key must match the first.
X509KeyPair(cert, key) == cert.kind \in {"leaf", "prefixed", "shadowed"} /\ key = "key"

\* parseNotAfter: pem.Decode yields the first block, of whatever type, and
\* x509.ParseCertificate must parse its bytes.
parseNotAfter(cert) ==
  IF cert.kind \in {"leaf", "shadowed"} THEN [NotAfter |-> cert.first, err |-> "nil"]
                                        ELSE [NotAfter |-> 0, err |-> "invalid cert"]

\* The pool after lines 50 to 60: every chain entry, or the issuing CA when
\* the chain is empty.
poolIssuingFirst(resp) ==
  IF resp.IssuingCA # <<>> THEN CertsOf(resp.IssuingCA)
  ELSE UNION {CertsOf(resp.CAChain[k]) : k \in DOMAIN resp.CAChain}
pool(resp) ==
  IF Len(resp.CAChain) = 0
    THEN CertsOf(resp.IssuingCA)
    ELSE UNION {CertsOf(resp.CAChain[k]) : k \in DOMAIN resp.CAChain}

\* The RequireCA check of line 61.
missingCAAnyEmpty(i, resp) == i.RequireCA /\ (Len(resp.CAChain) = 0 \/ resp.IssuingCA = <<>>)
missingCA(i, resp) == i.RequireCA /\ Len(resp.CAChain) = 0 /\ resp.IssuingCA = <<>>

\* Issuer.Issue.
IssuerIssue(i, resp) ==
  IF ~i.Client THEN IssueFailed("vault client required")
  ELSE IF resp.err # "nil" THEN IssueFailed(resp.err)
  ELSE IF ~X509KeyPair(resp.Certificate, resp.PrivateKey) THEN IssueFailed("key pair")
  ELSE IF \E k \in DOMAIN resp.CAChain : ~AppendCertsFromPEM(resp.CAChain[k])
    THEN IssueFailed("vault ca_chain contained invalid PEM")
  ELSE IF Len(resp.CAChain) = 0 /\ resp.IssuingCA # <<>> /\ ~AppendCertsFromPEM(resp.IssuingCA)
    THEN IssueFailed("vault issuing_ca contained invalid PEM")
  ELSE IF missingCA(i, resp)
    THEN IssueFailed("vault issue response missing ca_chain/issuing_ca")
  ELSE IF parseNotAfter(resp.Certificate).err # "nil"
    THEN IssueFailed(parseNotAfter(resp.Certificate).err)
  ELSE [bundle |-> [Cert |-> "leaf", CA |-> pool(resp),
                    NotAfter |-> parseNotAfter(resp.Certificate).NotAfter],
        err |-> "nil"]

\* Issuer.Issue is called and returns.
IssuerIssueCall ==
  /\ result = NotCalled
  /\ result' = IssuerIssue(issuer, backend)
  /\ UNCHANGED <<issuer, backend>>
  /\ UNCHANGED <<managerVars, clientVars, spiffeVars>>

\* ------------------------------------------------------------------ spiffe
\* pki/spiffe: a string is the sequence of its characters.
MaxLen == 3            \* characters of a pattern and of a value

Chars == {"a", "b", "/", "+", "*"}

Strings(n) == UNION {[1..k -> Chars] : k \in 0..n}

\* strings.Count(s, c), strings.Contains(s, c), strings.HasSuffix(s, c) and
\* strings.TrimSuffix(s, c) for a one-character c.
Count(s, c) == Cardinality({k \in DOMAIN s : s[k] = c})

Contains(s, c) == \E k \in DOMAIN s : s[k] = c

HasSuffix(s, c) == Len(s) > 0 /\ s[Len(s)] = c

TrimSuffix(s, c) == IF HasSuffix(s, c) THEN SubSeq(s, 1, Len(s) - 1) ELSE s

\* strings.HasPrefix(s, p).
HasPrefix(s, p) == Len(p) <= Len(s) /\ SubSeq(s, 1, Len(p)) = p

\* strings.Split(s, "/"): the segments between the slashes; one empty
\* segment for the empty string.
RECURSIVE Split(_)
Split(s) ==
  IF ~Contains(s, "/") THEN <<s>>
  ELSE LET k == CHOOSE i \in DOMAIN s : s[i] = "/" /\ \A j \in 1..(i - 1) : s[j] # "/"
       IN <<SubSeq(s, 1, k - 1)>> \o Split(SubSeq(s, k + 1, Len(s)))

\* matchSegments without the prefix mode: the counts must be equal.
matchSegmentsSameCount(pattern, value, prefix) ==
  LET psegs0 == Split(pattern)
      vsegs == Split(value)
      psegs == IF prefix /\ Len(psegs0) > 0 /\ psegs0[Len(psegs0)] = <<>>
                 THEN SubSeq(psegs0, 1, Len(psegs0) - 1) ELSE psegs0
  IN IF Len(psegs) # Len(vsegs) THEN FALSE
     ELSE \A i \in DOMAIN psegs :
            IF psegs[i] = <<"+">> THEN vsegs[i] # <<>> ELSE psegs[i] = vsegs[i]
\* matchSegments, lines 153 to 177.
matchSegmentsPlusEmpty(pattern, value, prefix) ==
  LET psegs0 == Split(pattern)
      vsegs == Split(value)
      psegs == IF prefix /\ Len(psegs0) > 0 /\ psegs0[Len(psegs0)] = <<>>
                 THEN SubSeq(psegs0, 1, Len(psegs0) - 1) ELSE psegs0
  IN IF ~prefix /\ Len(psegs) # Len(vsegs) THEN FALSE
     ELSE IF prefix /\ Len(psegs) > Len(vsegs) THEN FALSE
     ELSE \A i \in DOMAIN psegs : psegs[i] = <<"+">> \/ psegs[i] = vsegs[i]
matchSegments(pattern, value, prefix) ==
  LET psegs0 == Split(pattern)
      vsegs == Split(value)
      psegs == IF prefix /\ Len(psegs0) > 0 /\ psegs0[Len(psegs0)] = <<>>
                 THEN SubSeq(psegs0, 1, Len(psegs0) - 1) ELSE psegs0
  IN IF ~prefix /\ Len(psegs) # Len(vsegs) THEN FALSE
     ELSE IF prefix /\ Len(psegs) > Len(vsegs) THEN FALSE
     ELSE \A i \in DOMAIN psegs :
            IF psegs[i] = <<"+">> THEN vsegs[i] # <<>> ELSE psegs[i] = vsegs[i]

\* matchGlob, lines 133 to 151.
matchGlobStarAnywhere(pattern, value) ==
  IF pattern = <<>> \/ value = <<>> THEN FALSE
  ELSE IF HasSuffix(pattern, "*") THEN matchSegments(TrimSuffix(pattern, "*"), value, TRUE)
  ELSE matchSegments(pattern, value, FALSE)
matchGlob(pattern, value) ==
  IF pattern = <<>> \/ value = <<>> THEN FALSE
  ELSE IF Count(pattern, "*") > 1 THEN FALSE
  ELSE IF Contains(pattern, "*") /\ ~HasSuffix(pattern, "*") THEN FALSE
  ELSE IF HasSuffix(pattern, "*") THEN matchSegments(TrimSuffix(pattern, "*"), value, TRUE)
  ELSE matchSegments(pattern, value, FALSE)

\* matchGlob is called and returns.
MatchGlobCall ==
  /\ glob.ret = "none"
  /\ glob' = [glob EXCEPT !.ret = IF matchGlob(glob.pattern, glob.value) THEN "true" ELSE "false"]
  /\ UNCHANGED peer
  /\ UNCHANGED <<managerVars, clientVars, issuerVars>>

\* Authorizer.VerifyPeerCertificate.  A URI of the leaf is its scheme and
\* the rest of its text; uri.String() is the scheme, written as the one
\* character "spiffe:" or "https:", followed by the rest.
MaxRules == 2          \* rules of each kind in an Authorizer
MaxURIs == 2           \* URIs of a leaf certificate

URIs == [Scheme : {"spiffe", "https"}, rest : {<<"/", "a">>, <<"/", "a", "/", "a">>}]

String(uri) == <<IF uri.Scheme = "spiffe" THEN "spiffe:" ELSE "https:">> \o uri.rest

ExactRules == {<<"spiffe:", "/", "a">>, <<"https:", "/", "a">>}

PrefixRules == {<<"spiffe:", "/", "a", "/">>, <<"https:", "/">>}

GlobRules == {<<"spiffe:", "/", "+", "/", "+">>, <<"*">>}

SeqsOf(S, n) == UNION {[1..k -> S] : k \in 0..n}

Authorizers ==
  [AllowedExact : SeqsOf(ExactRules, MaxRules),
   AllowedPrefixes : SeqsOf(PrefixRules, MaxRules),
   AllowedGlobs : SeqsOf(GlobRules, MaxRules)]

\* A certificate is the sequence of its URIs; the chains are none, a first
\* chain that is empty before one that is not, or one chain of a leaf.
Leaves == SeqsOf(URIs, MaxURIs)

VerifiedChains ==
  {<<>>} \cup {<<<<>>, <<leaf>>>> : leaf \in Leaves} \cup {<<<<leaf>>>> : leaf \in Leaves}

\* Lines 114 to 128 for one id: the rules of each kind are tried in order.
RECURSIVE firstExact(_, _, _)
firstExact(rules, id, k) ==
  IF k > Len(rules) THEN FALSE
  ELSE IF id = rules[k] THEN TRUE ELSE firstExact(rules, id, k + 1)

RECURSIVE firstPrefix(_, _, _)
firstPrefix(rules, id, k) ==
  IF k > Len(rules) THEN FALSE
  ELSE IF HasPrefix(id, rules[k]) THEN TRUE ELSE firstPrefix(rules, id, k + 1)

RECURSIVE firstGlob(_, _, _)
firstGlob(rules, id, k) ==
  IF k > Len(rules) THEN FALSE
  ELSE IF matchGlob(rules[k], id) THEN TRUE ELSE firstGlob(rules, id, k + 1)

\* The scheme test of lines 110 to 112.
isSpiffeAny(uri) == TRUE
isSpiffe(uri) == uri.Scheme = "spiffe"

\* Lines 109 to 129: the URIs of the leaf in order; nil at the first match.
RECURSIVE scanURIs(_, _, _)
scanURIs(a, uris, k) ==
  IF k > Len(uris) THEN "client SPIFFE ID not allowed"
  ELSE IF ~isSpiffe(uris[k]) THEN scanURIs(a, uris, k + 1)
  ELSE IF \/ firstExact(a.AllowedExact, String(uris[k]), 1)
          \/ firstPrefix(a.AllowedPrefixes, String(uris[k]), 1)
          \/ firstGlob(a.AllowedGlobs, String(uris[k]), 1)
    THEN "nil"
  ELSE scanURIs(a, uris, k + 1)

\* Authorizer.VerifyPeerCertificate, lines 103 to 131.
VerifyPeerCertificate(a, verifiedChains) ==
  IF Len(verifiedChains) = 0 \/ Len(verifiedChains[1]) = 0 THEN "no verified chain"
  ELSE scanURIs(a, verifiedChains[1][1], 1)

\* VerifyPeerCertificate is called and returns.
VerifyCall ==
  /\ peer.ret = "none"
  /\ peer' = [peer EXCEPT !.ret = VerifyPeerCertificate(peer.a, peer.verifiedChains)]
  /\ UNCHANGED glob
  /\ UNCHANGED <<managerVars, clientVars, issuerVars>>

\* ---------------------------------------------------------- specifications
Next ==
  \/ Tick
  \/ Cancel
  \/ \E s \in Starters : StartIssue(s)
  \/ \E s \in Starters : StartRefresh(s)
  \/ RunStep
  \/ \E i \in DOMAIN hooks : HookReturn(i)

\* Hooks return or never return.
Spec == Init /\ [][Next]_vars

NextPanic ==
  \/ Next
  \/ \E i \in DOMAIN hooks : HookPanic(i)

\* Hooks may also panic.
PanicSpec == Init /\ [][NextPanic]_vars

\* Run's goroutine keeps being scheduled; nothing is assumed of the clock,
\* the hooks or the other callers.
LiveSpec == Init /\ [][Next]_vars /\ WF_vars(RunStep)

\* The Manager while the vault client is studied.
ManagerUnused ==
  /\ opts = NewWithOptions(CHOOSE o \in RawOptions : TRUE)
  /\ curr = NoBundle
  /\ now = 0
  /\ ticks = 0
  /\ canceled = FALSE
  /\ issued = 0
  /\ runPc = "start"
  /\ runLoc = RunLoc0
  /\ startPc = [s \in Starters |-> "idle"]
  /\ startLoc = [s \in Starters |-> StartLoc0]
  /\ hooks = <<>>
  /\ stored = <<>>
  /\ crashed = FALSE

ClientInit ==
  /\ cfg \in Configs
  /\ Token \in {""} \cup Tokens
  /\ calls = [c \in Callers |-> Call0]
  /\ started = 0
  /\ logins = 0
  /\ ManagerUnused
  /\ IssuerUnused
  /\ SpiffeUnused

ClientNext ==
  \/ \E c \in Callers, argsOk \in BOOLEAN : ClientIssue(c, argsOk)
  \/ \E c \in Callers : EnsureToken(c)
  \/ \E c \in Callers : LoginSend(c)
  \/ \E c \in Callers, r \in LoginResponses : LoginRecv(c, r)
  \/ \E c \in Callers : LoginDecode(c)
  \/ \E c \in Callers : DoJSON(c)
  \/ \E c \in Callers, r \in IssueAnswers : IssueRecv(c, r)
  \/ \E c \in Callers : DecodeIssue(c)
  \/ \E c \in Callers : Retry(c)

\* Any number of goroutines call Client.Issue on one Client; the server
\* answers as it likes.
ClientSpec == ClientInit /\ [][ClientNext]_vars

IssuerInit ==
  /\ issuer \in Issuers
  /\ backend \in ClientResults
  /\ result = NotCalled
  /\ ManagerUnused
  /\ ClientUnused
  /\ SpiffeUnused

IssuerNext == IssuerIssueCall

\* One Issuer.Issue call on any configuration and any answer of the client.
IssuerSpec == IssuerInit /\ [][IssuerNext]_vars

GlobInit ==
  /\ glob \in [pattern : Strings(MaxLen), value : Strings(MaxLen), ret : {"none"}]
  /\ peer = [a |-> <<>>, verifiedChains |-> <<>>, ret |-> "none"]
  /\ ManagerUnused
  /\ ClientUnused
  /\ IssuerUnused

GlobNext == MatchGlobCall

\* One matchGlob call on any pattern and any value.
GlobSpec == GlobInit /\ [][GlobNext]_vars

AuthorizerInit ==
  /\ peer \in [a : Authorizers, verifiedChains : VerifiedChains, ret : {"none"}]
  /\ glob = [pattern |-> <<>>, value |-> <<>>, ret |-> "none"]
  /\ ManagerUnused
  /\ ClientUnused
  /\ IssuerUnused

AuthorizerNext == VerifyCall

\* One VerifyPeerCertificate call of any Authorizer on any chains.
AuthorizerSpec == AuthorizerInit /\ [][AuthorizerNext]_vars

\* ------------------------------------------------------------------ claims
HookIds == DOMAIN hooks

\* Run is not waiting for the Issuer's bound, a timer or its context.
RunCanProceed ==
  \/ runPc \in {"start", "initRefresh", "refresh", "onError", "backoff", "rotate", "jitter"}
  \/ runPc \in {"initIssue", "loop"} /\ CanIssue
  \/ runPc = "sleeping" /\ (DLe(runLoc.deadline, Seconds(now)) \/ canceled)

\* A refresh fails in this step: its Issue call returns an error.
FailedRefreshStep ==
  \/ runPc = "initIssue" /\ runPc' = "loop"
  \/ runPc = "loop" /\ runPc' # "loop" /\ runLoc'.res.err # "nil"
  \/ \E s \in Starters : startPc[s] = "idle" /\ startPc'[s] = "returned"

\* The rotate hook is dispatched in this step.
RotateDispatchStep ==
  /\ Len(hooks') = Len(hooks) + 1
  /\ hooks'[Len(hooks')].kind = "rotate"

\* d is (2/3) * L as Go computes L * 2 / 3 on nanoseconds, L a number of
\* seconds: the quotient truncated toward zero, less than 3 ns from 2L/3.
TwoThirds(L, d) ==
  LET d3 == DAdd(d, DAdd(d, d))
  IN IF L >= 0 THEN DLe(d3, Seconds(2 * L)) /\ DLt(Seconds(2 * L), DAdd(d3, <<0, 3>>))
               ELSE DLe(Seconds(2 * L), d3) /\ DLt(DSub(d3, <<0, 3>>), Seconds(2 * L))

ScheduledAtTwoThirds(bundle, t0, next) ==
  /\ TwoThirds(bundle.NotAfter - t0, DSub(next, Seconds(t0)))
  /\ (bundle.NotAfter - t0 = 90 => next = Seconds(t0 + 60))

\* C1: Current() fails with ErrNotReady in every state in which no refresh
\* has stored a bundle yet, succeeds in every state in which one has, and
\* once it succeeds it succeeds in every later state.
C1_ReadyOnceIssued ==
  /\ [](Current(curr).err = (IF stored = <<>> THEN "ErrNotReady" ELSE "nil"))
  /\ [][Current(curr).err = "nil" => Current(curr').err = "nil"]_vars

\* C1 witness: a refresh has failed after a bundle was stored, and Current()
\* still succeeds.
C1_Witness ==
  /\ stored # <<>>
  /\ runPc = "onError"
  /\ Current(curr).err = "nil"

\* C2: a refresh whose Issue call returns an error leaves m.curr as it was,
\* so Current() returns after it what it returned before it.
C2_FailedRefreshKeepsBundle ==
  [][FailedRefreshStep => (curr' = curr /\ Current(curr') = Current(curr))]_vars

\* C2 witness: one bundle was stored, two or more refreshes have failed, and
\* the bundle is still the current one.
C2_Witness ==
  /\ curr # NoBundle
  /\ Len(stored) = 1
  /\ issued >= 3
  /\ runPc = "backoff"

\* C3: Run has returned only if its context is canceled.
C3_RunReturnsOnlyOnCancel == runPc = "done" => canceled

\* C3 witness: the initial issuance and the loop's first issuance both failed,
\* the backoff has elapsed, and Run is back at the top of its loop.
C3_Witness ==
  /\ ~canceled
  /\ runPc = "loop"
  /\ issued >= 2
  /\ stored = <<>>
  /\ \A s \in Starters : startPc[s] = "idle"

\* C4: once ctx is canceled Run returns, whether or not the clock advances;
\* and a sleep entered after the cancellation returns false at once.
C4_CancelEndsRun ==
  /\ canceled ~> (runPc = "done")
  /\ [][(canceled /\ runPc \in {"backoff", "jitter"} /\ runPc' # runPc)
          => runPc' = "done"]_vars

\* C4 witness: a wait that was in progress when ctx was canceled has returned
\* before its timer was due.
C4_Witness ==
  /\ canceled
  /\ runPc = "done"
  /\ runLoc.kind # "none"
  /\ ~runLoc.lateStart
  /\ DLt(Seconds(now), runLoc.deadline)

\* C5: after a successful refresh at clock reading t0, the next-refresh time
\* that refresh returns is t0 + (NotAfter - t0) * 2 / 3.
C5_NextRefreshAtTwoThirds ==
  (runPc \notin {"initRefresh", "refresh"} /\ runLoc.res.err = "nil")
    => ScheduledAtTwoThirds(runLoc.res.bundle, runLoc.t0, runLoc.next)

\* C5 witness: a leaf with 90 s to live was stored and the next refresh is
\* due 60 s later.
C5_Witness ==
  /\ runPc = "rotate"
  /\ runLoc.res.bundle.NotAfter - runLoc.t0 = 90
  /\ runLoc.next = Seconds(runLoc.t0 + 60)

\* C6: the wait Run computes after a successful refresh is
\* w = max(next - now, MinRefresh), and the duration it sleeps is w + jitter
\* with 0 <= jitter <= w/10; it is never shorter than MinRefresh.
C6_WaitFlooredAndJittered ==
  /\ runPc = "jitter" =>
       LET left == DSub(runLoc.next, Seconds(runLoc.now1))
       IN runLoc.w = IF DLe(Seconds(opts.MinRefresh), left) THEN left
                                                            ELSE Seconds(opts.MinRefresh)
  /\ runLoc.kind = "refresh" =>
       LET jitter == DSub(runLoc.d, runLoc.w)
           jitter5 == DAdd(DAdd(jitter, jitter), DAdd(DAdd(jitter, jitter), jitter))
       IN /\ DLe(Seconds(opts.MinRefresh), runLoc.w)
          /\ DLe(Seconds(0), jitter)
          /\ DLe(DAdd(jitter5, jitter5), runLoc.w)
          /\ DLe(Seconds(opts.MinRefresh), runLoc.d)

\* C6 witness: Run sleeps after storing a leaf that was already expired; the
\* wait was floored at MinRefresh and a positive jitter was added.
C6_Witness ==
  /\ runPc = "sleeping"
  /\ runLoc.kind = "refresh"
  /\ curr.NotAfter < now
  /\ runLoc.w = Seconds(opts.MinRefresh)
  /\ DLt(Seconds(opts.MinRefresh), runLoc.d)

\* C7: a Start call makes exactly one Issue call; when the call fails Start
\* returns the Issuer's error and m.curr is unchanged; when it succeeds Start
\* stores that bundle and returns nil; no step of Start dispatches a hook or
\* touches Run, and Start does nothing after returning.
C7_StartIsOneRefresh ==
  /\ [](\A s \in Starters :
          /\ startPc[s] = "refresh" => startLoc[s].res.err = "nil"
          /\ startPc[s] = "returned" => startLoc[s].calls = 1)
  /\ [][\A s \in Starters :
          /\ (startPc[s] = "idle" /\ startPc'[s] = "returned")
               => (startLoc'[s].ret \in IssueErrors /\ curr' = curr /\ stored' = stored)
          /\ (startPc[s] = "refresh" /\ startPc'[s] = "returned")
               => /\ startLoc'[s].ret = "nil"
                  /\ curr' = startLoc[s].res.bundle
                  /\ stored' = Append(stored, startLoc[s].res.bundle.id)
          /\ startPc'[s] # startPc[s]
               => (hooks' = hooks /\ runPc' = runPc /\ runLoc' = runLoc)
          /\ startPc[s] = "returned"
               => (startPc'[s] = "returned" /\ startLoc'[s] = startLoc[s])]_vars

\* C7 witness: Start has returned the Issuer's error while a bundle stored
\* earlier is current.
C7_Witness ==
  \E s \in Starters :
    /\ startPc[s] = "returned"
    /\ startLoc[s].ret \in IssueErrors
    /\ curr # NoBundle

\* C8: when the rotate hook is dispatched, the bundle of that refresh has
\* been stored: Current() returns it or a bundle stored after it, and the hook
\* gets the BundleInfo of that refresh's bundle.
C8_RotateAfterStore ==
  [][RotateDispatchStep =>
       LET h == hooks'[Len(hooks')] IN
         /\ h.bundle = runLoc.res.bundle.id
         /\ h.info = bundleInfo(runLoc.res.bundle)
         /\ Current(curr).err = "nil"
         /\ \E i, j \in DOMAIN stored :
              /\ i <= j
              /\ stored[i] = h.bundle
              /\ stored[j] = Current(curr).bundle.id]_vars

\* C8 witness: a rotate hook is running for the bundle that is current.
C8_Witness ==
  \E i \in HookIds :
    /\ hooks[i].kind = "rotate"
    /\ hooks[i].state = "running"
    /\ hooks[i].info = bundleInfo(curr)

\* C9: while a hook is still running, Run is never held up by it: whenever
\* Run is not waiting for its timer or its context, its next step can be taken.
C9_HooksDoNotDelayRun ==
  ((\E i \in HookIds : hooks[i].state = "running") /\ RunCanProceed)
    => ENABLED RunStep

\* C9 witness: the rotate hook of an earlier refresh is still running and Run
\* has waited and made its next issuance.
C9_Witness ==
  \E i \in HookIds :
    /\ hooks[i].kind = "rotate"
    /\ hooks[i].state = "running"
    /\ runPc = "refresh"
    /\ runLoc.res.bundle.id > hooks[i].bundle

\* C10: a panic inside a hook is contained: the process lives on, the stored
\* bundle is unchanged and Run can take its next step.
C10_HookPanicContained ==
  (\E i \in HookIds : hooks[i].state = "panicked")
    => (~crashed /\ (RunCanProceed => ENABLED RunStep))

\* C11: every hook gets a context of its own whose deadline is HookTimeout
\* after the dispatch: the context is done once the clock has reached the
\* deadline and once the hook has returned, and before that it is not done,
\* whatever the state of Run's context.
C11_HookContextBounded ==
  /\ [](\A i \in HookIds :
          LET h == hooks[i] IN
            /\ (h.state = "running" /\ now >= h.deadline) => h.ctxDone
            /\ h.state = "returned" => h.ctxDone
            /\ (h.state = "running" /\ now < h.deadline) => ~h.ctxDone)
  /\ [][Len(hooks') = Len(hooks) + 1 =>
          LET h == hooks'[Len(hooks')] IN
            /\ h.state = "running"
            /\ h.deadline = now + opts.HookTimeout
            /\ ~h.ctxDone]_vars

\* C11 witness: Run's context is not canceled, one hook that has not returned
\* has had its context closed by the timeout, and a hook dispatched later
\* still has an open one.
C11_Witness ==
  /\ ~canceled
  /\ \E i, j \in HookIds :
       /\ i < j
       /\ hooks[i].state = "running" /\ hooks[i].ctxDone
       /\ hooks[j].state = "running" /\ ~hooks[j].ctxDone

\* Run alone, with an error hook, and every Issue call so far has failed.
OnlyFailuresSoFar ==
  /\ opts.OnError
  /\ stored = <<>>
  /\ runPc \notin {"initRefresh", "refresh"}
  /\ \A s \in Starters : startPc[s] = "idle"

\* C12: when Run starts with no bundle and the Issuer fails every call, the
\* error hook has been invoked once for every failed attempt, any two
\* invocations are at least ErrorBackoff apart, and Current() is ErrNotReady.
C12_ErrorHookPerBackoff ==
  OnlyFailuresSoFar =>
    /\ Current(curr).err = "ErrNotReady"
    /\ ~canceled => Len(hooks) = issued - (IF runPc = "onError" THEN 1 ELSE 0)
    /\ \A i, j \in HookIds :
         (i < j /\ hooks[i].state = "running" /\ hooks[j].state = "running")
           => hooks[j].deadline - hooks[i].deadline >= opts.ErrorBackoff

\* C13: what Current() returns only moves forward in issuance order (bundle
\* ids are the numbers of the Issue calls): a store never replaces a bundle by
\* one issued before it, and Current() returns the bundle stored last.
C13_ReadsMonotone ==
  /\ [](stored # <<>> => Current(curr).bundle.id = stored[Len(stored)])
  /\ [][(Current(curr).err = "nil" /\ curr' # curr)
          => Current(curr').bundle.id >= Current(curr).bundle.id]_vars

\* Run's refresh stores in this step (lines 220 and 226 -> line 272).
RunStoreStep == runPc \in {"initRefresh", "refresh"} /\ runPc' # runPc

\* A Start call's refresh stores in this step (line 213 -> line 272).
StartStoreStep == \E s \in Starters : startPc[s] = "refresh" /\ startPc'[s] = "returned"

\* C14 as stated: m.curr changes only in a step of Run; no other operation,
\* Start included, changes it.
C14_OnlyRunWrites ==
  [][curr' # curr => (RunStoreStep /\ ~StartStoreStep)]_vars

\* C14 amended: m.curr changes only in the store of a refresh, called by Run
\* or by Start, and the new value is the whole bundle that refresh was
\* issued; the accessors, which are functions of m.curr, and every other step
\* (hook dispatch, hooks, clock, cancellation) leave it alone.
C14_OnlyRefreshWrites ==
  /\ [][curr' # curr =>
          /\ (RunStoreStep \/ StartStoreStep)
          /\ curr' # NoBundle
          /\ stored' = Append(stored, curr'.id)
          /\ RunStoreStep => curr' = runLoc.res.bundle
          /\ StartStoreStep => \E s \in Starters : curr' = startLoc[s].res.bundle]_vars
  /\ [](/\ GetCertificate(curr).err = Current(curr).err
        /\ GetClientCertificate(curr).err = Current(curr).err
        /\ Current(curr).err = "nil" =>
             /\ GetCertificate(curr).cert = curr.id
             /\ GetClientCertificate(curr).cert = curr.id)

\* C14 witness: Start has stored its bundle and Run has stored one too.
C14_Witness ==
  /\ Len(stored) >= 2
  /\ \E s \in Starters : startPc[s] = "returned" /\ startLoc[s].ret = "nil"
  /\ runPc \in {"rotate", "jitter", "sleeping"}

\* C15: a Client.Issue call sends at most two issuance requests; the second
\* goes out only after the first failed with an auth-class error while RoleID
\* and SecretID are configured, the cached token was cleared and a login
\* succeeded after that; a failure of the second request is returned and
\* never retried.  A call that nothing else overlaps, whose first request was
\* rejected and whose fresh login returned a token the server accepts, has
\* sent exactly two requests and is not rejected again: it succeeds unless
\* the server or the transport fails on the second request.
C15_AtMostOneRetry ==
  /\ [](\A c \in Callers :
          /\ calls[c].sent <= 2
          /\ calls[c].sent = 2 =>
               /\ calls[c].err1 \in AuthClassErrors
               /\ cfg.RoleID # "" /\ cfg.SecretID # ""
               /\ calls[c].cleared /\ calls[c].fresh
          /\ calls[c].pc = "setToken" => calls[c].sent = 1
          /\ (calls[c].pc = "returned" /\ calls[c].alone /\ calls[c].relogin = "good") =>
               /\ calls[c].sent = 2
               /\ calls[c].ret \in {"nil", "decode", "http 500", "transport"})
  /\ [][\A c \in Callers :
          (calls[c].pc = "issueWait" /\ calls[c].sent = 2 /\ calls'[c].pc # "issueWait") =>
             \/ calls'[c].pc = "decodeIssue"
             \/ calls'[c].pc = "returned" /\ calls'[c].ret \in IssueAnswers]_vars

C15_Witness ==
  \E c \in Callers :
    /\ calls[c].pc = "returned" /\ calls[c].alone
    /\ calls[c].err1 \in AuthClassErrors /\ calls[c].relogin = "good"
    /\ calls[c].sent = 2 /\ calls[c].ret = "nil"
    /\ \E d \in Callers \ {c} : calls[d].sent = 2 /\ calls[d].ret = "http 403"

\* C16: a login request is made only when the cached token is empty.  For
\* every call, ensureToken goes on to log in only from a state whose cached
\* token is empty; and across any sequence of calls that do not overlap, the
\* token is still empty when the login request is sent, so a pre-provisioned
\* or earlier obtained token is reused until the auth-failure retry clears it.
C16_LoginOnlyWhenEmpty ==
  [][\A c \in Callers :
       /\ (calls[c].pc # "login" /\ calls'[c].pc = "login") => Token = ""
       /\ (calls[c].pc = "login" /\ calls'[c].pc = "loginWait" /\ calls[c].alone) =>
            /\ Token = ""
            /\ logins' = logins + 1
       /\ (logins' # logins) => \E d \in Callers : calls[d].pc = "login" /\ calls'[d].pc = "loginWait"]_vars

\* A later call reuses the token an earlier call obtained, and a call logs in
\* again after its retry cleared the cache.
C16_Witness ==
  /\ started = 3 /\ logins = 2
  /\ \E c \in Callers :
       /\ calls[c].alone /\ calls[c].cleared /\ calls[c].pc = "loginWait" /\ Token = ""

\* C17: concurrent Client.Issue calls on a client without a cached token do
\* not log in twice at once: at most one login request is in flight at any
\* time, and no login request is sent while a token is cached.
C17_NoDuplicateLogins ==
  /\ [](Cardinality({c \in Callers : calls[c].pc = "loginWait"}) <= 1)
  /\ [][\A c \in Callers :
          (calls[c].pc = "login" /\ calls'[c].pc = "loginWait") => Token = ""]_vars

\* C18: every response body the client receives is closed before the
\* operation that received it returns: a call holds an open body only while
\* ensureToken or decodeIssue is reading it, and none once Client.Issue has
\* returned, whatever the response was.
C18_BodiesClosed ==
  \A c \in Callers :
    /\ calls[c].open = (IF calls[c].pc \in {"loginDecode", "decodeIssue"} THEN 1 ELSE 0)
    /\ calls[c].pc = "returned" => calls[c].open = 0

C18_Witness ==
  \E c \in Callers : \E d \in Callers \ {c} :
    /\ calls[c].pc = "returned" /\ calls[c].ret = "decode" /\ calls[c].open = 0
    /\ calls[d].pc = "returned" /\ calls[d].ret \in {"undecodable", "empty"} /\ calls[d].open = 0
    /\ logins > 0

\* C19: when the response has a valid certificate and key and neither
\* ca_chain nor issuing_ca, Issuer.Issue fails if RequireCA is set and
\* returns a bundle with an empty trust pool if it is not; when a chain or
\* an issuing CA is present, the outcome does not depend on RequireCA.
ValidKeyPair ==
  /\ issuer.Client /\ backend.err = "nil"
  /\ backend.Certificate.kind = "leaf" /\ backend.PrivateKey = "key"

C19_RequireCA ==
  (result # NotCalled /\ ValidKeyPair) =>
    /\ (Len(backend.CAChain) = 0 /\ backend.IssuingCA = <<>>) =>
         IF issuer.RequireCA
           THEN result.bundle = NilBundle /\ result.err # "nil"
           ELSE result.err = "nil" /\ result.bundle.CA = {}
    /\ (Len(backend.CAChain) > 0 \/ backend.IssuingCA # <<>>) =>
         /\ result.err # "vault issue response missing ca_chain/issuing_ca"
         /\ result = IssuerIssue([issuer EXCEPT !.RequireCA = ~issuer.RequireCA], backend)

C19_Witness ==
  /\ result # NotCalled /\ ValidKeyPair /\ issuer.RequireCA
  /\ Len(backend.CAChain) = 0 /\ backend.IssuingCA = <<"ca1">>
  /\ result.err = "nil" /\ result.bundle.CA = {"ca1"}

\* C20: with a valid certificate and key, the trust pool of the returned
\* bundle holds the certificates of every ca_chain entry when the chain is
\* not empty, whatever issuing_ca is; it holds the issuing_ca certificates
\* exactly when the chain is empty and issuing_ca is present; and a chain
\* entry, or an issuing_ca that is used, from which no certificate parses
\* makes Issue fail with a nil bundle.
InvalidPEM(p) == \A k \in DOMAIN p : p[k] = "junk"

C20_TrustPool ==
  (result # NotCalled /\ ValidKeyPair) =>
    LET chain == backend.CAChain
        ica == backend.IssuingCA
        badChain == \E k \in DOMAIN chain : InvalidPEM(chain[k])
        badIssuing == Len(chain) = 0 /\ ica # <<>> /\ InvalidPEM(ica)
    IN /\ (badChain \/ badIssuing) => (result.err # "nil" /\ result.bundle = NilBundle)
       /\ result.err = "nil" =>
            /\ ~badChain /\ ~badIssuing
            /\ Len(chain) > 0 =>
                 /\ \A k \in DOMAIN chain : \A j \in DOMAIN chain[k] :
                      chain[k][j] # "junk" => chain[k][j] \in result.bundle.CA
                 /\ \A x \in result.bundle.CA : \E k \in DOMAIN chain : \E j \in DOMAIN chain[k] :
                      chain[k][j] = x
                 /\ result = IssuerIssue(issuer, [backend EXCEPT !.IssuingCA = <<>>])
            /\ Len(chain) = 0 =>
                 result.bundle.CA = {ica[j] : j \in DOMAIN ica} \ {"junk"}
       /\ (~badChain /\ ~badIssuing /\ ~(issuer.RequireCA /\ Len(chain) = 0 /\ ica = <<>>)) =>
            result.err = "nil"

C20_Witness ==
  /\ result # NotCalled /\ ValidKeyPair /\ result.err = "nil"
  /\ Len(backend.CAChain) = 2 /\ backend.CAChain[1] # backend.CAChain[2]
  /\ backend.IssuingCA = <<"junk">>
  /\ result.bundle.CA = {"ca1", "ca2"}

\* C21: every bundle Issuer.Issue returns has the NotAfter of the leaf
\* certificate of the response, whatever TTL is configured, and so has the
\* manager's next refresh time computed from it.
C21_NotAfterFromLeaf ==
  (result # NotCalled /\ result.err = "nil") =>
    /\ result.bundle.NotAfter = backend.Certificate.NotAfter
    /\ refreshNext(result.bundle, 0) = refreshNext(backend.Certificate, 0)

\* C23: matchGlob returns false for every value when the pattern has a '*'
\* that is not its last character or has more than one '*', and whenever the
\* pattern or the value is empty.
C23_StarOnlyLast ==
  LET p == glob.pattern
  IN (glob.ret # "none" /\
        \/ \E k \in 1..(Len(p) - 1) : p[k] = "*"
        \/ p = <<>>
        \/ glob.value = <<>>)
       => glob.ret = "false"

C23_Witness ==
  /\ glob.ret = "false"
  /\ glob.pattern = <<"a", "*", "*">>
  /\ glob.value = <<"a">>

\* The segments of a string, cut at each '/', written without strings.Split:
\* segment i runs from after the (i-1)-th slash to before the i-th.
Slashes(s) == {k \in DOMAIN s : s[k] = "/"}

SegCount(s) == Cardinality(Slashes(s)) + 1

SlashAt(s, i) ==
  IF i = 0 THEN 0
  ELSE IF i > Cardinality(Slashes(s)) THEN Len(s) + 1
  ELSE CHOOSE k \in Slashes(s) : Cardinality({j \in Slashes(s) : j < k}) = i - 1

Seg(s, i) == SubSeq(s, SlashAt(s, i - 1) + 1, SlashAt(s, i) - 1)

SegMatches(pseg, vseg) == (pseg = <<"+">> /\ vseg # <<>>) \/ pseg = vseg

\* C24: for a non-empty pattern without '*' and a non-empty value, matchGlob
\* returns true exactly when pattern and value have the same number of
\* segments and at every position the pattern segment is '+' and the value
\* segment is non-empty, or the two segments are equal.
C24_ExactSegments ==
  (glob.ret # "none" /\ glob.pattern # <<>> /\ glob.value # <<>> /\ ~Contains(glob.pattern, "*")) =>
    (glob.ret = "true" <=>
       /\ SegCount(glob.pattern) = SegCount(glob.value)
       /\ \A i \in 1..SegCount(glob.pattern) : SegMatches(Seg(glob.pattern, i), Seg(glob.value, i)))

\* '+/a' matches 'a/a'.
C24_Witness ==
  /\ glob.ret = "true"
  /\ glob.pattern = <<"+", "/", "a">>
  /\ glob.value = <<"a", "/", "a">>

\* The segments of the pattern before its trailing '*', a final empty
\* segment dropped: their number.
BaseSegCount(p) ==
  LET base == SubSeq(p, 1, Len(p) - 1)
  IN IF Seg(base, SegCount(base)) = <<>> THEN SegCount(base) - 1 ELSE SegCount(base)

\* C25: for a pattern ending in a single trailing '*' and a non-empty value,
\* matchGlob returns true exactly when the segments before the '*' (a final
\* empty segment dropped) are no more numerous than the value's segments and
\* each matches the value's segment at its position; the value may have
\* further segments, and the pattern '*' matches every non-empty value.
C25_TrailingStar ==
  LET p == glob.pattern
      base == SubSeq(p, 1, Len(p) - 1)
  IN (glob.ret # "none" /\ glob.value # <<>> /\ Count(p, "*") = 1 /\ HasSuffix(p, "*")) =>
       /\ glob.ret = "true" <=>
            /\ BaseSegCount(p) <= SegCount(glob.value)
            /\ \A i \in 1..BaseSegCount(p) : SegMatches(Seg(base, i), Seg(glob.value, i))
       /\ p = <<"*">> => glob.ret = "true"

\* 'a/*' matches 'a/a', a value with a further segment.
C25_Witness ==
  /\ glob.ret = "true"
  /\ glob.pattern = <<"a", "/", "*">>
  /\ glob.value = <<"a", "/", "a">>

\* The rules of an Authorizer and the sequence of a leaf's URIs, reversed.
Reverse(q) == [k \in 1..Len(q) |-> q[Len(q) + 1 - k]]

\* C22: VerifyPeerCertificate accepts exactly when the first verified chain
\* is non-empty and its leaf has a URI of scheme spiffe that equals an exact
\* rule, has a prefix rule as prefix, or matches a glob rule; a URI of
\* another scheme never leads to acceptance; and the verdict is the same
\* with the rules and the URIs in the opposite order.
C22_AcceptIffSpiffeMatch ==
  peer.ret # "none" =>
    LET a == peer.a
        chains == peer.verifiedChains
        hasLeaf == Len(chains) > 0 /\ Len(chains[1]) > 0
        uris == chains[1][1]
        allowed(uri) ==
          LET id == <<IF uri.Scheme = "spiffe" THEN "spiffe:" ELSE "https:">> \o uri.rest
          IN \/ \E k \in DOMAIN a.AllowedExact : a.AllowedExact[k] = id
             \/ \E k \in DOMAIN a.AllowedPrefixes :
                  /\ Len(a.AllowedPrefixes[k]) <= Len(id)
                  /\ \A j \in DOMAIN a.AllowedPrefixes[k] : a.AllowedPrefixes[k][j] = id[j]
             \/ \E k \in DOMAIN a.AllowedGlobs : matchGlob(a.AllowedGlobs[k], id)
        reverseOrder ==
          <<<<Reverse(uris)>>>>
        reversedRules ==
          [AllowedExact |-> Reverse(a.AllowedExact),
           AllowedPrefixes |-> Reverse(a.AllowedPrefixes),
           AllowedGlobs |-> Reverse(a.AllowedGlobs)]
    IN /\ peer.ret = "nil" <=>
            (hasLeaf /\ \E k \in DOMAIN uris : uris[k].Scheme = "spiffe" /\ allowed(uris[k]))
       /\ (hasLeaf /\ \A k \in DOMAIN uris : uris[k].Scheme # "spiffe") => peer.ret # "nil"
       /\ hasLeaf => VerifyPeerCertificate(reversedRules, reverseOrder) = peer.ret

\* A leaf with an https URI that rules would match, then a spiffe URI that
\* only the second glob rule matches.
C22_Witness ==
  /\ peer.ret = "nil"
  /\ peer.a.AllowedExact = <<>>
  /\ peer.a.AllowedPrefixes = <<<<"https:", "/">>>>
  /\ peer.a.AllowedGlobs = <<<<"spiffe:", "/", "+", "/", "+">>, <<"*">>>>
  /\ Len(peer.verifiedChains) = 1
  /\ peer.verifiedChains[1][1] =
       <<[Scheme |-> "https", rest |-> <<"/", "a">>], [Scheme |-> "spiffe", rest |-> <<"/", "a">>]>>


\* --------------------------------------------------------------- claim C26

\* The bundles Run has stored whose rotate hook it has not reached yet: the
\* one stored by the loop's refresh, between lines 227 and 234.
RunStoresPending == IF runPc = "rotate" THEN 1 ELSE 0

\* The rotate hooks dispatched so far.
RotateDispatches == Cardinality({k \in DOMAIN hooks : hooks[k].kind = "rotate"})

\* Only Run has worked on the manager: no Start call has begun.
OnlyRun == \A s \in Starters : startPc[s] = "idle"

\* C26: with OnRotate registered, the number of rotate-hook dispatches equals
\* the number of successful stores made by Run, the initial issuance that Run
\* performs when no bundle is present included: once Run is past the dispatch
\* point of a store, every bundle it stored has had its rotate hook.
C26_RotatePerRunStore ==
  (opts.OnRotate /\ OnlyRun) => RotateDispatches = Len(stored) - RunStoresPending


\* --------------------------------------------------------------- claim C27

\* Run calls Issuer.Issue in this step: line 220 or line 226, through refresh.
RunIssueCallStep == runPc \in {"initIssue", "loop"} /\ runPc' # runPc

\* C27: within one Run, after a successful issuance has been stored, Run does
\* not call Issuer.Issue again before a wait of at least MinRefresh has
\* elapsed or the context is canceled, the initial issuance at startup
\* included: when Run, alone on the manager since time 0, calls Issue with
\* the context live, one wait of at least MinRefresh has elapsed for every
\* bundle it has stored.
C27_WaitBetweenIssues ==
  [][(RunIssueCallStep /\ OnlyRun /\ ~canceled) => now >= opts.MinRefresh * Len(stored)]_vars


\* --------------------------------------------------------------- claim C28

\* C28: on a client configured with both RoleID and SecretID no Client.Issue
\* call fails with ErrAuthRequired, in any interleaving of concurrent Issue
\* calls on the same client, one call clearing the cached token for its retry
\* while another is between ensureToken and attaching the token included.
C28_NoAuthRequired ==
  (cfg.RoleID # "" /\ cfg.SecretID # "") =>
    \A c \in Callers : calls[c].ret # "ErrAuthRequired"

====
